---- MODULE Spec2Model ----
(***************************************************************************)
(* State-machine model of the satellite orbit predictor:                   *)
(*   src/src/orbit_predictor.py     SatelliteOrbitPredictor                *)
(*   src/src/collision_detector.py  CollisionDetector                      *)
(*   src/src/ground_track.py        GroundTrackCalculator                  *)
(*   src/src/data_fetcher.py        TLEDataFetcher                         *)
(*                                                                         *)
(* Representation of numbers.                                              *)
(*  - Wall-clock instants and timedeltas are whole microseconds (the       *)
(*    resolution of Python's datetime), counted from an arbitrary origin.  *)
(*  - Positions are points of an integer lattice with Scale lattice units  *)
(*    per kilometre.                                                       *)
(*  - A distance d = sqrt(n) lattice units is represented exactly by its   *)
(*    radicand n; "d < k km" is n < (k*Scale)^2.                           *)
(*  - relative_velocity_km_s = |sqrt(after) - sqrt(before)| / (num/den s)  *)
(*    is represented exactly by the record of those four integers.         *)
(*  - duration_hours is given as a whole number of seconds (the float      *)
(*    duration_hours is seconds/3600); float rounding error of numpy is    *)
(*    not modelled, the rounding of timedelta to microseconds is.          *)
(* Indices are the source's: arrays are functions on 0..n-1.               *)
(***************************************************************************)
EXTENDS Integers, Sequences, FiniteSets, TLC

VARIABLES
    satellites,           \* SatelliteOrbitPredictor.satellites: name -> record
    warning_distance_km,  \* CollisionDetector.warning_distance_km
    clock,                \* the wall clock read by datetime.utcnow(), microseconds
    op,                   \* the call that returned last ("none" when the caller holds no result)
    ret,                  \* the value that call returned (or the exception it raised)
    obs,                  \* arguments and locals of that call
    loading,              \* a load_tle_file call in progress on another thread, or None
    memo,                 \* the predict_position call remembered since the last load, or None
    cache,                \* the files of TLEDataFetcher.cache_dir: path -> text
    running               \* a generate_orbit_path or calculate_ground_track call in progress, or None

vars ==
    <<satellites, warning_distance_km, clock, op, ret, obs, loading, memo, cache, running>>

----------------------------------------------------------------------------
(* Bounds of the model *)

MaxClock == 2        \* the clock stays within 0..MaxClock seconds
MaxPoints == 4       \* points ranges over 0..MaxPoints
MaxFileLen == 2      \* records per TLE file
MaxDuration == 3     \* duration is MaxDuration - 1 or MaxDuration seconds
Scale == 2           \* lattice units per kilometre
MaxTrack == 3        \* samples of a ground track handed to analyze_coverage
ValidityWindow == 1  \* seconds around the epoch within which a record is taken as valid

Second == 1000 * 1000   \* microseconds

Names == {"ISS", "CSS"}             \* names that occur in TLE files
QueryNames == Names \cup {"NOPE"}   \* names a caller may ask for
PointChoices == 0..MaxPoints
DurationChoices == (MaxDuration - 1)..MaxDuration   \* seconds
AdvanceChoices == {0, Second \div 2}   \* clock advance between two reads inside one call
WarningChoices == {0, 1, 5}         \* km
LatitudeChoices == {-1, 0, 1}       \* degrees: south of, on and north of the equator
TimeChoices == {k * (Second \div 2) : k \in 0..(2 * MaxClock)}   \* time_utc arguments

None == [none |-> TRUE]

----------------------------------------------------------------------------
(* Element records and the propagator (skyfield's EarthSatellite.at, an    *)
(* external library): a deterministic function of (record, whole second).  *)
(* Each record moves uniformly on the lattice.                             *)

(* p0 is the position at the epoch, v the displacement per second.         *)

Records ==
    { [satnum |-> 1, epoch |-> 0, p0 |-> <<0, 0, 0>>, v |-> <<1, 0, 0>>],
      [satnum |-> 2, epoch |-> 0, p0 |-> <<8, 10, 0>>, v |-> <<-1, -2, 0>>] }

at(satellite, t) ==
    [k \in 1..3 |-> satellite.p0[k] + satellite.v[k] * (t - satellite.epoch)]

\* satellite.at(ts.now()): the instant keeps its microseconds, the position
\* is given in millionths of a lattice unit
at_now(satellite, now) ==
    [k \in 1..3 |-> satellite.p0[k] * Second
                      + satellite.v[k] * (now - satellite.epoch * Second)]

\* wgs84.subpoint(geocentric): the projection of a position to the ground
\* (external library; a deterministic function of the position)
Abs(n) == IF n < 0 THEN -n ELSE n

subpoint(position) ==
    [latitude |-> position[3], longitude |-> position[1],
     elevation |-> Abs(position[1]) + Abs(position[2]) + Abs(position[3])]

----------------------------------------------------------------------------
(* datetime / numpy helpers *)

\* round(a / b) to the nearest integer, ties to even (timedelta's rounding)
RoundDiv(a, b) ==
    LET q == a \div b
        r == a % b
    IN  IF 2 * r < b THEN q
        ELSE IF 2 * r > b THEN q + 1
        ELSE IF q % 2 = 0 THEN q ELSE q + 1

\* mutant: the interval is divided into points parts and its end left out
linspace_open(duration, points) ==
    [i \in 0..(points - 1) |-> RoundDiv(i * duration * Second, points)]

\* np.linspace(0, duration, points)[i], as the timedelta(hours=...) built from it
linspace(duration, points) ==
    [i \in 0..(points - 1) |->
        IF points = 1 THEN 0 ELSE RoundDiv(i * duration * Second, points - 1)]

\* ts.utc(dt.year, ..., dt.second): the microseconds of dt are dropped
utc(dt) == dt \div Second

len(a) == Cardinality(DOMAIN a)

\* dict[k] = v
Put(d, k, v) == [n \in (DOMAIN d) \cup {k} |-> IF n = k THEN v ELSE d[n]]

EmptyDict == [n \in {} |-> None]

\* what a call hands back: a value, or the exception that left it
Return(v) == [raised |-> FALSE, value |-> v]
Raise(kind, what) == [raised |-> TRUE, exception |-> <<kind, what>>]

----------------------------------------------------------------------------
(* TLE files.  A file is the list of the records it holds, in file order;  *)
(* skyfield's load.tle_file turns it into the list of EarthSatellite       *)
(* objects, one per record, each carrying its name.                        *)

EarthSatellite(name, rec) ==
    [name |-> name, satnum |-> rec.satnum, epoch |-> rec.epoch,
     p0 |-> rec.p0, v |-> rec.v]

\* a record whose element lines hold a non-numeric field
MalformedEntries == {[name |-> "CSS", malformed |-> TRUE]}

WellFormed(entry) == "malformed" \notin DOMAIN entry

FileEntries ==
    {EarthSatellite(n, r) : n \in Names, r \in Records} \cup MalformedEntries

Files == UNION {[1..n -> FileEntries] : n \in 0..MaxFileLen}

\* What the library does with a malformed record is not decided by this
\* repository: the parser either raises out of load.tle_file ("raise") or
\* passes over the lines without producing an object ("skip").
ParseOutcomes == {"raise", "skip"}

tle_file(file, outcome) ==
    IF outcome = "raise" /\ \E i \in DOMAIN file : ~WellFormed(file[i])
    THEN Raise("ValueError", "TLE format error")
    ELSE Return(SelectSeq(file, WellFormed))

----------------------------------------------------------------------------
(* SatelliteOrbitPredictor *)

\* mutant: an earlier record of a name is kept, a later one dropped
RECURSIVE StoreByName_first_wins(_, _, _)
StoreByName_first_wins(catalog, sats, i) ==
    IF i > Len(sats) THEN catalog
    ELSE Put(StoreByName_first_wins(catalog, sats, i + 1), sats[i].name, sats[i])

\* for sat in satellites: self.satellites[sat.name] = sat
RECURSIVE StoreByName(_, _, _)
StoreByName(catalog, sats, i) ==
    IF i > Len(sats) THEN catalog
    ELSE StoreByName(Put(catalog, sats[i].name, sats[i]), sats, i + 1)

\* {sat.name: sat for sat in satellites}
RECURSIVE DictByName(_, _, _)
DictByName(d, sats, i) ==
    IF i > Len(sats) THEN d
    ELSE DictByName(Put(d, sats[i].name, sats[i]), sats, i + 1)

\* the whole seconds at which generate_orbit_path propagates, for a call
\* that read the clock at start_time
SampleTimes(start_time, duration, points) ==
    LET time_deltas == linspace(duration, points)
    IN  [i \in DOMAIN time_deltas |-> utc(start_time + time_deltas[i])]

\* mutant: an unknown name yields a path of zeros instead of an exception
generate_orbit_path_placeholder(satellite_name, duration, points, start_time) ==
    IF points = 0
    THEN Raise("IndexError", "positions[:, 0]")
    ELSE LET ts == SampleTimes(start_time, duration, points)
             positions == [i \in DOMAIN ts |->
                             IF satellite_name \in DOMAIN satellites
                             THEN at(satellites[satellite_name], ts[i])
                             ELSE <<0, 0, 0>>]
         IN  Return([x |-> [i \in DOMAIN positions |-> positions[i][1]],
                     y |-> [i \in DOMAIN positions |-> positions[i][2]],
                     z |-> [i \in DOMAIN positions |-> positions[i][3]]])

generate_orbit_path(satellite_name, duration, points, start_time) ==
    IF satellite_name \notin DOMAIN satellites
    THEN Raise("ValueError", satellite_name)
    ELSE LET satellite == satellites[satellite_name]
             ts == SampleTimes(start_time, duration, points)
             positions == [i \in DOMAIN ts |-> at(satellite, ts[i])]
         IN  IF len(positions) = 0
             THEN Raise("IndexError", "positions[:, 0]")
             ELSE Return([x |-> [i \in DOMAIN positions |-> positions[i][1]],
                          y |-> [i \in DOMAIN positions |-> positions[i][2]],
                          z |-> [i \in DOMAIN positions |-> positions[i][3]]])

\* mutant: an unknown name yields the origin instead of an exception
predict_position_placeholder(satellite_name, time_utc) ==
    IF satellite_name \notin DOMAIN satellites
    THEN Return(<<0, 0, 0>>)
    ELSE Return(at(satellites[satellite_name], utc(time_utc)))

\* mutant: the position is taken at the wall-clock time of the call
predict_position_now(satellite_name, time_utc) ==
    IF satellite_name \notin DOMAIN satellites
    THEN Raise("ValueError", satellite_name)
    ELSE Return(at(satellites[satellite_name], utc(clock)))

predict_position(satellite_name, time_utc) ==
    IF satellite_name \notin DOMAIN satellites
    THEN Raise("ValueError", satellite_name)
    ELSE LET satellite == satellites[satellite_name]
             t == utc(time_utc)
             position == at(satellite, t)
         IN  Return(<<position[1], position[2], position[3]>>)

get_satellite_info(satellite_name, now) ==
    IF satellite_name \notin DOMAIN satellites
    THEN Raise("ValueError", satellite_name)
    ELSE LET satellite == satellites[satellite_name]
             geocentric == at_now(satellite, now)
             sub == subpoint(geocentric)
         IN  Return([name |-> satellite.name,
                     norad_id |-> satellite.satnum,
                     current_latitude |-> sub.latitude,
                     current_longitude |-> sub.longitude,
                     altitude_km |-> sub.elevation,
                     epoch |-> satellite.epoch])

----------------------------------------------------------------------------
(* GroundTrackCalculator *)

calculate_ground_track(satellite_name, duration, points, start_time) ==
    IF satellite_name \notin DOMAIN satellites
    THEN Raise("ValueError", satellite_name)
    ELSE LET satellite == satellites[satellite_name]
             ts == SampleTimes(start_time, duration, points)
             sub == [i \in DOMAIN ts |-> subpoint(at(satellite, ts[i]))]
         IN  Return([latitudes |-> [i \in DOMAIN ts |-> sub[i].latitude],
                     longitudes |-> [i \in DOMAIN ts |-> sub[i].longitude]])

\* np.sign
sign(n) == IF n < 0 THEN -1 ELSE IF n > 0 THEN 1 ELSE 0

\* np.diff
diff(a) == [i \in 0..(len(a) - 2) |-> a[i + 1] - a[i]]

\* np.max, np.min of a non-empty array
max(a) == CHOOSE m \in {a[i] : i \in DOMAIN a} : \A i \in DOMAIN a : a[i] <= m
min(a) == CHOOSE m \in {a[i] : i \in DOMAIN a} : \A i \in DOMAIN a : a[i] >= m

\* np.sum(a != 0)
count_nonzero(a) == Cardinality({i \in DOMAIN a : a[i] # 0})

analyze_coverage(latitudes, longitudes) ==
    IF len(latitudes) = 0 \/ len(longitudes) = 0
    THEN Raise("ValueError", "zero-size array to reduction operation")
    ELSE Return([max_latitude |-> max(latitudes),
                 min_latitude |-> min(latitudes),
                 latitude_range |-> max(latitudes) - min(latitudes),
                 longitude_span |-> max(longitudes) - min(longitudes),
                 equatorial_crossings |->
                     count_nonzero(diff([i \in DOMAIN latitudes |-> sign(latitudes[i])])),
                 total_points |-> len(latitudes)])

\* the ground tracks handed to analyze_coverage: every sequence of up to
\* MaxTrack latitudes, with longitudes advancing by one degree per sample
Tracks ==
    UNION {[0..(n - 1) -> LatitudeChoices] : n \in 0..MaxTrack}

----------------------------------------------------------------------------
(* TLEDataFetcher.  A path of the cache directory is the pair of the       *)
(* category and the second of the timestamp in the file name.  The remote  *)
(* server answers a request with a failure to connect or with a response   *)
(* of some status and text.                                                *)

base_urls ==
    [category \in {"stations", "active", "starlink", "gps", "weather"} |->
        <<"https://celestrak.org/NORAD/elements", category>>]

CategoryChoices == {"stations", "unknown"}

Responses ==
    {[connected |-> FALSE]} \cup
    [connected : {TRUE}, status_code : {200, 404, 503}, text : {"tle-a", "tle-b"}]

\* response.raise_for_status() raises for a 4xx or 5xx status
raise_for_status(response) == response.status_code >= 400

\* mutant: the text is saved before the status of the response is looked at
download_tle_data_save_first(category, response, now) ==
    IF category \notin DOMAIN base_urls
    THEN [ret |-> Raise("ValueError", category), requested |-> <<>>, cache |-> cache]
    ELSE LET filepath == <<category, utc(now)>>
             url == base_urls[category]
         IN  IF ~response.connected
             THEN [ret |-> Raise("ConnectionError", url), requested |-> <<url>>,
                   cache |-> cache]
             ELSE IF raise_for_status(response)
             THEN [ret |-> Raise("HTTPError", response.status_code),
                   requested |-> <<url>>,
                   cache |-> Put(cache, filepath, response.text)]
             ELSE [ret |-> Return(filepath), requested |-> <<url>>,
                   cache |-> Put(cache, filepath, response.text)]

\* the value returned or exception raised, the requests issued and the
\* cache directory after the call
download_tle_data(category, response, now) ==
    IF category \notin DOMAIN base_urls
    THEN [ret |-> Raise("ValueError", category), requested |-> <<>>, cache |-> cache]
    ELSE LET filepath == <<category, utc(now)>>
             url == base_urls[category]
         IN  IF ~response.connected
             THEN [ret |-> Raise("ConnectionError", url), requested |-> <<url>>,
                   cache |-> cache]
             ELSE IF raise_for_status(response)
             THEN [ret |-> Raise("HTTPError", response.status_code),
                   requested |-> <<url>>, cache |-> cache]
             ELSE [ret |-> Return(filepath), requested |-> <<url>>,
                   cache |-> Put(cache, filepath, response.text)]

----------------------------------------------------------------------------
(* CollisionDetector *)

Sq(a) == a * a

\* mutant: the x difference is not squared
calculate_distance_unsquared(pos1, pos2) ==
    (pos2[1] - pos1[1]) + Sq(pos2[2] - pos1[2]) + Sq(pos2[3] - pos1[3])

\* np.sqrt(...) of the sum of squares, as its radicand
calculate_distance(pos1, pos2) ==
    Sq(pos2[1] - pos1[1]) + Sq(pos2[2] - pos1[2]) + Sq(pos2[3] - pos1[3])

\* distance < km
Below(distance, km) == distance < Sq(km * Scale)

\* np.argmin: a left-to-right scan keeping the first smallest element
RECURSIVE ArgminScan(_, _, _)
ArgminScan(a, i, best) ==
    IF i >= len(a) THEN best
    ELSE ArgminScan(a, i + 1, IF a[i] < a[best] THEN i ELSE best)

\* mutant: among equal smallest elements the last one is kept
RECURSIVE ArgminScanLast(_, _, _)
ArgminScanLast(a, i, best) ==
    IF i >= len(a) THEN best
    ELSE ArgminScanLast(a, i + 1, IF a[i] <= a[best] THEN i ELSE best)

argmin_last(a) == ArgminScanLast(a, 1, 0)

argmin(a) == ArgminScan(a, 1, 0)

\* mutant: distances equal to the warning distance are counted too
RECURSIVE where_inclusive(_, _, _)
where_inclusive(a, km, i) ==
    IF i >= len(a) THEN <<>>
    ELSE IF a[i] <= Sq(km * Scale) THEN <<i>> \o where_inclusive(a, km, i + 1)
    ELSE where_inclusive(a, km, i + 1)

\* mutant: the last sample is never examined
RECURSIVE where_but_last(_, _, _)
where_but_last(a, km, i) ==
    IF i >= len(a) - 1 THEN <<>>
    ELSE IF Below(a[i], km) THEN <<i>> \o where_but_last(a, km, i + 1)
    ELSE where_but_last(a, km, i + 1)

\* np.where(cond)[0]: the indices, in order, at which the condition holds
RECURSIVE where(_, _, _)
where(a, km, i) ==
    IF i >= len(a) THEN <<>>
    ELSE IF Below(a[i], km) THEN <<i>> \o where(a, km, i + 1)
    ELSE where(a, km, i + 1)

Velocity(before, after, num, den) ==
    [before |-> before, after |-> after, num |-> num, den |-> den]

\* the number 0
ZeroVelocity == Velocity(0, 0, 1, 1)

\* mutant: the thresholds are inclusive
collision_risk_inclusive(min_distance) ==
    IF min_distance <= Sq(1 * Scale) THEN "HIGH"
    ELSE IF min_distance <= Sq(5 * Scale) THEN "MEDIUM"
    ELSE "LOW"

collision_risk(min_distance) ==
    IF Below(min_distance, 1) THEN "HIGH"
    ELSE IF Below(min_distance, 5) THEN "MEDIUM"
    ELSE "LOW"

\* analyze_close_approach after both paths were generated; start_time is
\* its own reading of the clock
CloseApproach(sat1_name, sat2_name, p1, p2, duration, points, start_time) ==
    LET distances == [i \in DOMAIN p1.x |->
                        calculate_distance(<<p1.x[i], p1.y[i], p1.z[i]>>,
                                           <<p2.x[i], p2.y[i], p2.z[i]>>)]
        times == [i \in DOMAIN p1.x |->
                        start_time + RoundDiv(duration * Second * i, points)]
        min_distance_idx == argmin(distances)
        warning_indices == where(distances, warning_distance_km, 0)
        relative_velocity ==
            IF min_distance_idx > 0 /\ min_distance_idx < len(distances) - 1
            THEN Velocity(distances[min_distance_idx - 1],
                          distances[min_distance_idx + 1],
                          2 * duration, points)
            ELSE ZeroVelocity
    IN  [satellite_1 |-> sat1_name,
         satellite_2 |-> sat2_name,
         min_distance_km |-> distances[min_distance_idx],
         closest_approach_time |-> times[min_distance_idx],
         relative_velocity_km_s |-> relative_velocity,
         collision_risk |-> collision_risk(distances[min_distance_idx]),
         warning_periods |-> Len(warning_indices),
         all_distances |-> distances,
         times |-> times]

\* the report: the error line alone, or the assessment built from the result
generate_collision_report(analysis_result) ==
    IF "error" \in DOMAIN analysis_result
    THEN <<"ERROR", analysis_result.error>>
    ELSE <<"REPORT", analysis_result.satellite_1, analysis_result.satellite_2,
           analysis_result.collision_risk, analysis_result.min_distance_km,
           analysis_result.closest_approach_time,
           analysis_result.relative_velocity_km_s>>

----------------------------------------------------------------------------
(* The state machine.  A caller issues one call at a time; the value the   *)
(* call returned stays in ret until the caller drops it (Discard).         *)

Init ==
    /\ satellites = EmptyDict
    /\ warning_distance_km \in WarningChoices
    /\ clock = 0
    /\ op = "none"
    /\ ret = None
    /\ obs = None
    /\ loading = None
    /\ memo = None
    /\ cache = EmptyDict
    /\ running = None

\* time passes between two calls
Tick ==
    /\ op = "none"
    /\ clock + Second \div 2 <= MaxClock * Second
    /\ clock' = clock + Second \div 2
    /\ UNCHANGED <<satellites, warning_distance_km, op, ret, obs, loading, memo, cache, running>>

\* the caller drops the value it was handed
Discard ==
    /\ op # "none"
    /\ op' = "none"
    /\ ret' = None
    /\ obs' = None
    /\ UNCHANGED <<satellites, warning_distance_km, clock, loading, memo, cache, running>>

LoadTleFile(file, outcome) ==
    /\ op = "none"
    /\ LET parsed == tle_file(file, outcome)
       IN  IF parsed.raised
           THEN /\ satellites' = satellites
                /\ ret' = parsed
                /\ obs' = [file |-> file, sats |-> <<>>, before |-> satellites]
           ELSE LET sats == parsed.value
                IN  /\ satellites' = StoreByName(satellites, sats, 1)
                    /\ ret' = DictByName(EmptyDict, sats, 1)
                    /\ obs' = [file |-> file, sats |-> sats, before |-> satellites]
    /\ op' = "load_tle_file"
    /\ memo' = None
    /\ UNCHANGED <<warning_distance_km, clock, loading, cache, running>>

GenerateOrbitPath(satellite_name, duration, points) ==
    /\ op = "none"
    /\ ret' = generate_orbit_path(satellite_name, duration, points, clock)
    /\ op' = "generate_orbit_path"
    /\ obs' = [satellite_name |-> satellite_name, duration |-> duration,
               points |-> points, start_time |-> clock,
               ts |-> IF satellite_name \in DOMAIN satellites
                      THEN SampleTimes(clock, duration, points)
                      ELSE None]
    /\ UNCHANGED <<satellites, warning_distance_km, clock, loading, memo, cache, running>>

\* adv1, adv2: by how much the clock moves on between the three readings
\* of it (generate_orbit_path twice, then analyze_close_approach itself)
AnalyzeCloseApproach(sat1_name, sat2_name, duration, points, adv1, adv2) ==
    /\ op = "none"
    /\ clock + adv1 + adv2 <= MaxClock * Second
    /\ LET start1 == clock
           start2 == start1 + adv1
           start3 == start2 + adv2
           g1 == generate_orbit_path(sat1_name, duration, points, start1)
           g2 == generate_orbit_path(sat2_name, duration, points, start2)
           args == [sat1_name |-> sat1_name, sat2_name |-> sat2_name,
                    duration |-> duration, points |-> points]
       IN  IF g1.raised
           THEN /\ ret' = [error |-> g1.exception]
                /\ obs' = [args |-> args, failed |-> 1,
                           catalog |-> satellites, loading |-> loading]
                /\ clock' = start1
           ELSE IF g2.raised
           THEN /\ ret' = [error |-> g2.exception]
                /\ obs' = [args |-> args, failed |-> 2,
                           catalog |-> satellites, loading |-> loading]
                /\ clock' = start2
           ELSE /\ ret' = CloseApproach(sat1_name, sat2_name, g1.value, g2.value,
                                        duration, points, start3)
                /\ obs' = [args |-> args, failed |-> 0,
                           p1 |-> g1.value, p2 |-> g2.value,
                           ts1 |-> SampleTimes(start1, duration, points),
                           ts2 |-> SampleTimes(start2, duration, points),
                           starts |-> <<start1, start2, start3>>,
                           catalog |-> satellites, loading |-> loading]
                /\ clock' = start3
    /\ op' = "analyze_close_approach"
    /\ UNCHANGED <<satellites, warning_distance_km, loading, memo, cache, running>>

\* mutant: the record is taken out of the catalog when it is looked up
GetSatelliteInfo_pop(satellite_name) ==
    /\ op = "none"
    /\ ret' = get_satellite_info(satellite_name, clock)
    /\ op' = "get_satellite_info"
    /\ obs' = [satellite_name |-> satellite_name, now |-> clock]
    /\ satellites' = [n \in DOMAIN satellites \ {satellite_name} |-> satellites[n]]
    /\ UNCHANGED <<warning_distance_km, clock, loading, memo, cache, running>>

\* remember says whether this call is the one later calls are compared with
PredictPosition(satellite_name, time_utc, remember) ==
    /\ op = "none"
    /\ ret' = predict_position(satellite_name, time_utc)
    /\ op' = "predict_position"
    /\ obs' = [satellite_name |-> satellite_name, time_utc |-> time_utc,
               now |-> clock, earlier |-> memo]
    /\ memo' = IF remember
               THEN [satellite_name |-> satellite_name, time_utc |-> time_utc,
                     now |-> clock, ret |-> ret']
               ELSE memo
    /\ UNCHANGED <<satellites, warning_distance_km, clock, loading, cache, running>>

GetSatelliteInfo(satellite_name) ==
    /\ op = "none"
    /\ ret' = get_satellite_info(satellite_name, clock)
    /\ op' = "get_satellite_info"
    /\ obs' = [satellite_name |-> satellite_name, now |-> clock]
    /\ UNCHANGED <<satellites, warning_distance_km, clock, loading, memo, cache, running>>

CalculateGroundTrack(satellite_name, duration, points) ==
    /\ op = "none"
    /\ ret' = calculate_ground_track(satellite_name, duration, points, clock)
    /\ op' = "calculate_ground_track"
    /\ obs' = [satellite_name |-> satellite_name, duration |-> duration,
               points |-> points, start_time |-> clock]
    /\ UNCHANGED <<satellites, warning_distance_km, clock, loading, memo, cache, running>>

AnalyzeCoverage(latitudes, longitudes) ==
    /\ op = "none"
    /\ ret' = analyze_coverage(latitudes, longitudes)
    /\ op' = "analyze_coverage"
    /\ obs' = [latitudes |-> latitudes, longitudes |-> longitudes]
    /\ UNCHANGED <<satellites, warning_distance_km, clock, loading, memo, cache, running>>

\* a call is issued only when the caller holds no result
Idle == op = "none"

Coverage ==
    Idle /\ \E latitudes \in Tracks :
                AnalyzeCoverage(latitudes, [i \in DOMAIN latitudes |-> i])

Predict ==
    Idle /\ \E n \in QueryNames, t \in TimeChoices : PredictPosition(n, t, FALSE)

Info == Idle /\ \E n \in QueryNames : GetSatelliteInfo(n)

Track ==
    Idle /\ \E n \in QueryNames, d \in DurationChoices, p \in PointChoices :
                CalculateGroundTrack(n, d, p)

Load ==
    Idle /\ \E file \in Files, outcome \in ParseOutcomes : LoadTleFile(file, outcome)

Generate ==
    Idle /\ \E n \in QueryNames, d \in DurationChoices, p \in PointChoices :
                GenerateOrbitPath(n, d, p)

Analyze ==
    Idle /\ \E n1 \in QueryNames, n2 \in QueryNames, d \in DurationChoices,
               p \in PointChoices, adv1 \in AdvanceChoices, adv2 \in AdvanceChoices :
                AnalyzeCloseApproach(n1, n2, d, p, adv1, adv2)

Next ==
    \/ Tick \/ Discard \/ Load \/ Generate \/ Analyze
    \/ Predict \/ Info \/ Track \/ Coverage

Spec == Init /\ [][Next]_vars

----------------------------------------------------------------------------
(* load_tle_file running on a second thread while the first thread issues  *)
(* queries.  The loop of load_tle_file stores one record per step; between  *)
(* two steps the other thread may run.                                     *)

\* satellites = load.tle_file(tle_filepath)
BeginLoadTleFile(file, outcome) ==
    /\ loading = None
    /\ LET parsed == tle_file(file, outcome)
       IN  /\ ~parsed.raised
           /\ loading' = [sats |-> parsed.value, i |-> 1, before |-> satellites]
    /\ UNCHANGED <<satellites, warning_distance_km, clock, op, ret, obs, memo, cache, running>>

\* one turn of the loop: self.satellites[sat.name] = sat
StoreNext ==
    /\ loading # None
    /\ loading.i <= Len(loading.sats)
    /\ satellites' = Put(satellites, loading.sats[loading.i].name,
                         loading.sats[loading.i])
    /\ loading' = [loading EXCEPT !.i = loading.i + 1]
    /\ UNCHANGED <<warning_distance_km, clock, op, ret, obs, memo, cache, running>>

\* the loop is over and load_tle_file returns to the second thread
EndLoadTleFile ==
    /\ loading # None
    /\ loading.i > Len(loading.sats)
    /\ loading' = None
    /\ UNCHANGED <<satellites, warning_distance_km, clock, op, ret, obs, memo, cache, running>>

\* A result the first thread holds is examined and dropped before the
\* second thread moves on: what a query saw is fixed when it returns, so
\* the steps the loader takes while a result is held show nothing new.
BeginLoad ==
    Idle /\ \E file \in Files, outcome \in ParseOutcomes :
                BeginLoadTleFile(file, outcome)

Store == Idle /\ StoreNext

EndLoad == Idle /\ EndLoadTleFile

\* the first thread analyses a pair while the second may be loading
AnalyzeDuringLoad ==
    Idle /\ \E n1 \in QueryNames, n2 \in QueryNames :
                AnalyzeCloseApproach(n1, n2, MaxDuration, 2, 0, 0)

NextConcurrent ==
    BeginLoad \/ Store \/ EndLoad \/ AnalyzeDuringLoad \/ Discard

SpecConcurrent == Init /\ [][NextConcurrent]_vars

----------------------------------------------------------------------------
(* generate_orbit_path and calculate_ground_track taken step by step on    *)
(* the first thread (membership test, lookup, one step per sample, return) *)
(* while load_tle_file runs on the second.  The two functions have the     *)
(* same shape; kind says which one is running.                             *)

PathKinds == {"generate_orbit_path", "calculate_ground_track"}

PathPoints == {0, MaxPoints - 2}

\* if satellite_name not in self.satellites: raise ValueError
BeginPath(kind, satellite_name, duration, points) ==
    /\ op = "none"
    /\ running = None
    /\ IF satellite_name \notin DOMAIN satellites
       THEN /\ op' = kind
            /\ ret' = Raise("ValueError", satellite_name)
            /\ obs' = [satellite_name |-> satellite_name, duration |-> duration,
                       points |-> points]
            /\ running' = None
       ELSE /\ running' = [kind |-> kind, pc |-> "lookup",
                           satellite_name |-> satellite_name,
                           duration |-> duration, points |-> points]
            /\ UNCHANGED <<op, ret, obs>>
    /\ UNCHANGED <<satellites, warning_distance_km, clock, loading, memo, cache>>

\* satellite = self.satellites[satellite_name]; start_time = datetime.utcnow();
\* time_deltas = np.linspace(0, duration_hours, points)
LookupSatellite ==
    /\ running # None
    /\ running.pc = "lookup"
    /\ IF running.satellite_name \in DOMAIN satellites
       THEN /\ running' = [kind |-> running.kind, pc |-> "sample",
                           satellite_name |-> running.satellite_name,
                           duration |-> running.duration, points |-> running.points,
                           satellite |-> satellites[running.satellite_name],
                           start_time |-> clock,
                           ts |-> SampleTimes(clock, running.duration, running.points),
                           samples |-> <<>>,
                           overwritten |-> FALSE]
            /\ UNCHANGED <<op, ret, obs>>
       ELSE /\ op' = running.kind
            /\ ret' = Raise("KeyError", running.satellite_name)
            /\ obs' = [satellite_name |-> running.satellite_name,
                       duration |-> running.duration, points |-> running.points]
            /\ running' = None
    /\ UNCHANGED <<satellites, warning_distance_km, clock, loading, memo, cache>>

\* mutant: every sample looks the name up in the catalog again
SampleNext_reread ==
    /\ running # None
    /\ running.pc = "sample"
    /\ Len(running.samples) < running.points
    /\ LET t == running.ts[Len(running.samples)]
           geocentric == at(satellites[running.satellite_name], t)
       IN  running' =
               [running EXCEPT
                   !.samples = Append(@, geocentric),
                   !.overwritten =
                       @ \/ satellites[running.satellite_name] # running.satellite]
    /\ UNCHANGED <<satellites, warning_distance_km, clock, op, ret, obs,
                   loading, memo, cache>>

\* one turn of the loop: geocentric = satellite.at(t), with the local
\* satellite; overwritten notes whether the catalog has meanwhile come to
\* hold another record under the name
SampleNext ==
    /\ running # None
    /\ running.pc = "sample"
    /\ Len(running.samples) < running.points
    /\ LET t == running.ts[Len(running.samples)]
           geocentric == at(running.satellite, t)
       IN  running' =
               [running EXCEPT
                   !.samples = Append(@, geocentric),
                   !.overwritten =
                       @ \/ satellites[running.satellite_name] # running.satellite]
    /\ UNCHANGED <<satellites, warning_distance_km, clock, op, ret, obs,
                   loading, memo, cache>>

\* the arrays built from the samples and returned
ReturnPath ==
    /\ running # None
    /\ running.pc = "sample"
    /\ Len(running.samples) = running.points
    /\ LET positions == [i \in 0..(running.points - 1) |-> running.samples[i + 1]]
       IN  ret' =
               IF running.kind = "generate_orbit_path"
               THEN IF len(positions) = 0
                    THEN Raise("IndexError", "positions[:, 0]")
                    ELSE Return([x |-> [i \in DOMAIN positions |-> positions[i][1]],
                                 y |-> [i \in DOMAIN positions |-> positions[i][2]],
                                 z |-> [i \in DOMAIN positions |-> positions[i][3]]])
               ELSE Return([latitudes |->
                               [i \in DOMAIN positions |-> subpoint(positions[i]).latitude],
                            longitudes |->
                               [i \in DOMAIN positions |-> subpoint(positions[i]).longitude]])
    /\ op' = running.kind
    /\ obs' = [satellite_name |-> running.satellite_name,
               duration |-> running.duration, points |-> running.points,
               start_time |-> running.start_time, ts |-> running.ts,
               satellite |-> running.satellite,
               overwritten |-> running.overwritten]
    /\ running' = None
    /\ UNCHANGED <<satellites, warning_distance_km, clock, loading, memo, cache>>

StartPath ==
    Idle /\ \E kind \in PathKinds, n \in QueryNames, points \in PathPoints :
                BeginPath(kind, n, MaxDuration, points)

BeginLoadOne ==
    Idle /\ \E file \in {f \in Files : Len(f) = 1}, outcome \in ParseOutcomes :
                BeginLoadTleFile(file, outcome)

NextPath ==
    \/ BeginLoadOne \/ Store \/ EndLoad
    \/ StartPath \/ LookupSatellite \/ SampleNext \/ ReturnPath \/ Discard

SpecPath == Init /\ [][NextPath]_vars

----------------------------------------------------------------------------
(* The fetcher on its own: downloads at different times, answered by the   *)
(* server in every way.                                                    *)

DownloadTleData(category, response) ==
    /\ op = "none"
    /\ LET done == download_tle_data(category, response, clock)
       IN  /\ ret' = done.ret
           /\ cache' = done.cache
           /\ obs' = [category |-> category, response |-> response,
                      requested |-> done.requested, before |-> cache,
                      now |-> clock]
    /\ op' = "download_tle_data"
    /\ UNCHANGED <<satellites, warning_distance_km, clock, loading, memo, running>>

Download ==
    Idle /\ \E category \in CategoryChoices, response \in Responses :
                DownloadTleData(category, response)

NextFetcher == Tick \/ Discard \/ Download

SpecFetcher == Init /\ [][NextFetcher]_vars

----------------------------------------------------------------------------
(* Repeated predict_position calls.  One earlier call is remembered (any   *)
(* one: each call may or may not become the remembered one) until the next *)
(* load_tle_file; other queries and the passing of time come in between.   *)

PredictAgain ==
    Idle /\ \E n \in QueryNames, t \in {0, MaxClock * Second}, remember \in BOOLEAN :
                PredictPosition(n, t, remember)

LoadOne ==
    Idle /\ \E file \in {f \in Files : Len(f) = 1}, outcome \in ParseOutcomes :
                LoadTleFile(file, outcome)

NextRepeated == Tick \/ Discard \/ LoadOne \/ PredictAgain \/ Info

SpecRepeated == Init /\ [][NextRepeated]_vars

----------------------------------------------------------------------------
(* Vocabulary of the properties *)

AnalysisReturned == op = "analyze_close_approach"

\* load_tle_file returned a mapping (no exception left it)
LoadReturned == op = "load_tle_file" /\ "raised" \notin DOMAIN ret

\* analyze_close_approach returned a result without an error
Analyzed == AnalysisReturned /\ "error" \notin DOMAIN ret

\* the squared Euclidean distance of the paired samples at index i
PairDistance(i) ==
    (obs.p2.x[i] - obs.p1.x[i]) * (obs.p2.x[i] - obs.p1.x[i])
  + (obs.p2.y[i] - obs.p1.y[i]) * (obs.p2.y[i] - obs.p1.y[i])
  + (obs.p2.z[i] - obs.p1.z[i]) * (obs.p2.z[i] - obs.p1.z[i])

Indices == 0..(obs.args.points - 1)

\* the earliest index at which the paired distance is smallest
MinIndex ==
    CHOOSE i \in Indices :
        /\ \A j \in Indices : PairDistance(j) >= PairDistance(i)
        /\ \A j \in Indices : j < i => PairDistance(j) > PairDistance(i)

Interior(i) == 0 < i /\ i < obs.args.points - 1

\* the velocity |sqrt(after) - sqrt(before)| / (num/den) is the number 0
IsZero(velocity) == velocity.before = velocity.after

\* the velocity is |sqrt(after) - sqrt(before)| / elapsed, elapsed in seconds
IsRate(velocity, before, after, elapsed) ==
    /\ velocity.before = before
    /\ velocity.after = after
    /\ before = after \/ velocity.num = elapsed * velocity.den

----------------------------------------------------------------------------
(* C1: in every result without an error, collision_risk is HIGH exactly    *)
(* when min_distance_km < 1, MEDIUM exactly when 1 <= min_distance_km < 5  *)
(* and LOW exactly when min_distance_km >= 5.                              *)
C1_RiskThresholds ==
    Analyzed =>
        /\ ret.collision_risk \in {"HIGH", "MEDIUM", "LOW"}
        /\ ret.collision_risk = "HIGH" <=> ret.min_distance_km < Scale * Scale
        /\ ret.collision_risk = "MEDIUM" <=>
              /\ ret.min_distance_km >= Scale * Scale
              /\ ret.min_distance_km < 25 * Scale * Scale
        /\ ret.collision_risk = "LOW" <=> ret.min_distance_km >= 25 * Scale * Scale

\* a closest approach of exactly 1 km was classified
C1_Witness ==
    Analyzed /\ ret.min_distance_km = Scale * Scale /\ ret.collision_risk = "MEDIUM"

(* C2: all_distances holds the Euclidean distance of every paired sample,  *)
(* min_distance_km is their global minimum and it is taken at the earliest *)
(* index that attains it; no sample is closer than the reported minimum.   *)
C2_EarliestGlobalMinimum ==
    Analyzed =>
        /\ DOMAIN ret.all_distances = Indices
        /\ \A i \in Indices : ret.all_distances[i] = PairDistance(i)
        /\ ret.min_distance_km = PairDistance(MinIndex)
        /\ ret.closest_approach_time = ret.times[MinIndex]
        /\ \A i \in Indices : ret.all_distances[i] >= ret.min_distance_km

\* the minimum is attained at two indices at least, of different times
C2_Witness ==
    /\ Analyzed
    /\ \E i \in Indices, j \in Indices :
          /\ i < j
          /\ PairDistance(i) = ret.min_distance_km
          /\ PairDistance(j) = ret.min_distance_km
          /\ ret.times[i] # ret.times[j]
          /\ ret.closest_approach_time = ret.times[i]

(* C3: at an interior minimum index i the relative velocity is             *)
(* |d[i+1] - d[i-1]| divided by the seconds that lie between the samples   *)
(* i-1 and i+1 as generate_orbit_path took them (of either trajectory);    *)
(* at a boundary index it is 0.                                            *)
C3_VelocityOverSampledTime ==
    Analyzed =>
        IF Interior(MinIndex)
        THEN \E ts \in {obs.ts1, obs.ts2} :
                IsRate(ret.relative_velocity_km_s,
                       PairDistance(MinIndex - 1), PairDistance(MinIndex + 1),
                       ts[MinIndex + 1] - ts[MinIndex - 1])
        ELSE IsZero(ret.relative_velocity_km_s)

(* C4: closest_approach_time is the time at which the sample pair of the   *)
(* minimum was propagated, for every minimum index.  Stated for the calls  *)
(* during which the clock stood still, in whole seconds: the two           *)
(* trajectories then share their sample times.                             *)
C4_ClosestTimeIsSampleTime ==
    (Analyzed /\ obs.starts[1] = obs.starts[3]) =>
        /\ obs.ts1 = obs.ts2
        /\ utc(ret.closest_approach_time) = obs.ts1[MinIndex]

(* C5: a result without an error is computed only from two trajectories    *)
(* sampled at the same timestamps; different sample times are an error.    *)
C5_MismatchedSamplingFails ==
    Analyzed => obs.ts1 = obs.ts2

(* C6: a satellite analysed against itself gives min_distance_km = 0,      *)
(* collision_risk = HIGH and relative_velocity_km_s = 0, however far the   *)
(* clock moves between the two trajectory generations.                     *)
C6_SelfAnalysisIsZero ==
    (Analyzed /\ obs.args.sat1_name = obs.args.sat2_name) =>
        /\ ret.min_distance_km = 0
        /\ ret.collision_risk = "HIGH"
        /\ IsZero(ret.relative_velocity_km_s)

(* C7: analysing the same two trajectories in the other order gives the    *)
(* same min_distance_km, collision_risk, relative_velocity_km_s and        *)
(* warning_periods; satellite_1 and satellite_2 are swapped.               *)
C7_Symmetry ==
    Analyzed =>
        LET swapped == CloseApproach(obs.args.sat2_name, obs.args.sat1_name,
                                     obs.p2, obs.p1, obs.args.duration,
                                     obs.args.points, obs.starts[3])
        IN  /\ swapped.min_distance_km = ret.min_distance_km
            /\ swapped.collision_risk = ret.collision_risk
            /\ swapped.relative_velocity_km_s = ret.relative_velocity_km_s
            /\ swapped.warning_periods = ret.warning_periods
            /\ swapped.satellite_1 = ret.satellite_2
            /\ swapped.satellite_2 = ret.satellite_1

\* two different satellites on different paths, apart at every sample
C7_Witness ==
    /\ Analyzed
    /\ obs.args.sat1_name # obs.args.sat2_name
    /\ obs.p1 # obs.p2
    /\ ret.min_distance_km > 0
    /\ Interior(MinIndex)

(* C8: warning_periods is the number of sample indices whose distance is   *)
(* strictly below warning_distance_km; with warning_distance_km = 0 it is  *)
(* 0, also for identical trajectories whose distance is exactly 0.         *)
C8_WarningCount ==
    Analyzed =>
        /\ ret.warning_periods =
              Cardinality({i \in Indices :
                  PairDistance(i) < warning_distance_km * warning_distance_km
                                        * Scale * Scale})
        /\ warning_distance_km = 0 => ret.warning_periods = 0

\* identical trajectories under a warning distance of 0
C8_Witness ==
    /\ Analyzed
    /\ warning_distance_km = 0
    /\ obs.p1 = obs.p2
    /\ obs.args.points > 1
    /\ ret.min_distance_km = 0
    /\ ret.warning_periods = 0

(* C9: when trajectory generation fails for either satellite (unknown name *)
(* or an exception while the path is built), the returned value carries    *)
(* the error and nothing else: no min_distance_km, relative_velocity_km_s, *)
(* collision_risk or warning_periods; the report is the error line.        *)
C9_FailureIsNotAPlaceholder ==
    AnalysisReturned =>
        LET unknown == {n \in {obs.args.sat1_name, obs.args.sat2_name} :
                            n \notin DOMAIN satellites}
        IN  (unknown # {} \/ obs.args.points = 0) =>
                /\ DOMAIN ret = {"error"}
                /\ obs.failed \in {1, 2}
                /\ generate_collision_report(ret) = <<"ERROR", ret.error>>

\* the second satellite is unknown, the first one known
C9_Witness ==
    /\ AnalysisReturned
    /\ obs.args.sat1_name \in DOMAIN satellites
    /\ obs.args.sat2_name \notin DOMAIN satellites
    /\ obs.args.points > 0
    /\ "error" \in DOMAIN ret

(* C10: duplicate names are resolved last-one-wins: after load_tle_file    *)
(* the catalog and the returned mapping map every name of the file to the  *)
(* record that appears last under that name; a name the file does not hold *)
(* keeps the record of the most recent load that contained it.             *)
C10_LastOneWins ==
    LoadReturned =>
        \A n \in Names :
            LET where_n == {i \in DOMAIN obs.sats : obs.sats[i].name = n}
                last == CHOOSE i \in where_n : \A j \in where_n : j <= i
            IN  IF where_n # {}
                THEN /\ n \in DOMAIN satellites /\ satellites[n] = obs.sats[last]
                     /\ n \in DOMAIN ret /\ ret[n] = obs.sats[last]
                ELSE /\ n \notin DOMAIN ret
                     /\ n \in DOMAIN satellites <=> n \in DOMAIN obs.before
                     /\ n \in DOMAIN obs.before => satellites[n] = obs.before[n]

\* a file with two different records of one name, loaded over a catalog
\* that holds another name from an earlier load
C10_Witness ==
    /\ LoadReturned
    /\ Len(obs.sats) = 2
    /\ obs.sats[1].name = obs.sats[2].name
    /\ obs.sats[1] # obs.sats[2]
    /\ satellites[obs.sats[1].name] = obs.sats[2]
    /\ \E n \in DOMAIN obs.before : n # obs.sats[1].name /\ satellites[n] = obs.before[n]

----------------------------------------------------------------------------
\* C11: predict_position, generate_orbit_path, get_satellite_info and
\* calculate_ground_track, asked for a name the catalog does not hold,
\* raise the not-found error (ValueError naming the satellite) and hand
\* back no position, path, info or track.
NameKeyedQuery ==
    op \in {"predict_position", "generate_orbit_path", "get_satellite_info",
            "calculate_ground_track"}

C11_UnknownNameIsNotFound ==
    (NameKeyedQuery /\ obs.satellite_name \notin DOMAIN satellites) =>
        /\ ret.raised
        /\ ret.exception = <<"ValueError", obs.satellite_name>>
        /\ "value" \notin DOMAIN ret

\* predict_position has been asked for an absent name while the catalog
\* held both satellites
C11_Witness ==
    /\ op = "predict_position"
    /\ obs.satellite_name = "NOPE"
    /\ DOMAIN satellites = Names
    /\ ret.raised

----------------------------------------------------------------------------
\* C12: predict_position, generate_orbit_path, get_satellite_info,
\* calculate_ground_track, analyze_coverage and analyze_close_approach
\* leave predictor.satellites as it was when they were called, whether
\* they return or raise; a step that changes the catalog is a
\* load_tle_file call.
QueryOps ==
    {"predict_position", "generate_orbit_path", "get_satellite_info",
     "calculate_ground_track", "analyze_coverage", "analyze_close_approach"}

C12_QueriesKeepTheCatalog ==
    [][ /\ (op = "none" /\ op' \in QueryOps) => satellites' = satellites
        /\ satellites' # satellites => (op = "none" /\ op' = "load_tle_file") ]_vars

\* get_satellite_info has returned the info of a satellite of a catalog
\* holding both names
C12_Witness ==
    /\ op = "get_satellite_info"
    /\ ~ret.raised
    /\ DOMAIN satellites = Names

----------------------------------------------------------------------------
\* C13: when load_tle_file has returned, the catalog holds exactly the
\* records of that load: predictor.satellites equals the mapping the call
\* returned, and no name of an earlier load that the file lacks remains.
C13_ReloadReplacesTheCatalog ==
    LoadReturned =>
        /\ satellites = ret
        /\ \A n \in DOMAIN satellites : \E i \in DOMAIN obs.sats : obs.sats[i].name = n

----------------------------------------------------------------------------
\* C15: load_tle_file on a file of one well-formed and one malformed
\* record, over an empty catalog, leaves a catalog of exactly one entry,
\* the well-formed record, and reports exactly one parse error to the
\* caller; the bad record does not abort the load.
OneGoodOneBad(file) ==
    /\ Len(file) = 2
    /\ Cardinality({i \in 1..2 : WellFormed(file[i])}) = 1

\* the errors the call hands to its caller: the exception that left it,
\* if any (the returned mapping carries none)
ParseErrorsReported == IF LoadReturned THEN 0 ELSE 1

C15_BadRecordSkippedAndReported ==
    (op = "load_tle_file" /\ OneGoodOneBad(obs.file) /\ obs.before = EmptyDict) =>
        /\ Cardinality(DOMAIN satellites) = 1
        /\ \E i \in 1..2 : /\ WellFormed(obs.file[i])
                             /\ obs.file[i].name \in DOMAIN satellites
                             /\ satellites[obs.file[i].name] = obs.file[i]
        /\ ParseErrorsReported = 1

----------------------------------------------------------------------------
\* C14: a query that runs while load_tle_file is under way sees, for the
\* names it looks up, either the catalog as it was before that load began
\* or the catalog as it is once the load has stored all its records; it
\* never sees a catalog holding only some of the file's records.
Lookup(catalog, n) == IF n \in DOMAIN catalog THEN catalog[n] ELSE None

----------------------------------------------------------------------------
\* C16: predict_position for a known name and a time further from the
\* record's epoch than the validity window raises a propagation error
\* and returns no position.
BeyondValidityWindow(satellite, time_utc) ==
    Abs(utc(time_utc) - satellite.epoch) > ValidityWindow

C16_OutOfWindowFails ==
    ( /\ op = "predict_position"
      /\ obs.satellite_name \in DOMAIN satellites
      /\ BeyondValidityWindow(satellites[obs.satellite_name], obs.time_utc) ) =>
        ret.raised

----------------------------------------------------------------------------
\* C17: two predict_position calls with the same name and the same time,
\* with no load_tle_file between them, give the same result (the same
\* position, or the same not-found error), whatever queries ran in
\* between and whatever the wall clock showed at either call.
SameQueryAgain ==
    /\ op = "predict_position"
    /\ obs.earlier # None
    /\ obs.earlier.satellite_name = obs.satellite_name
    /\ obs.earlier.time_utc = obs.time_utc

C17_PredictPositionIsDeterministic ==
    SameQueryAgain => ret = obs.earlier.ret

\* the same position has been asked for twice, at different wall-clock
\* times, and was returned
C17_Witness ==
    /\ SameQueryAgain
    /\ ~ret.raised
    /\ obs.earlier.now # obs.now

----------------------------------------------------------------------------
\* C18: equatorial_crossings is the number of times the track changes
\* hemisphere: a pair of samples i < j of opposite sign with nothing but
\* samples of latitude 0 between them is one crossing, so a crossing
\* through a sample at latitude exactly 0 counts once, and a track that
\* touches latitude 0 and stays in its hemisphere counts none.
HemisphereChanges(latitudes) ==
    Cardinality({pair \in (DOMAIN latitudes) \X (DOMAIN latitudes) :
                    /\ pair[1] < pair[2]
                    /\ sign(latitudes[pair[1]]) * sign(latitudes[pair[2]]) = -1
                    /\ \A k \in DOMAIN latitudes :
                           (pair[1] < k /\ k < pair[2]) => latitudes[k] = 0})

C18_CrossingsCountedOnce ==
    (op = "analyze_coverage" /\ ~ret.raised) =>
        ret.value.equatorial_crossings = HemisphereChanges(obs.latitudes)

----------------------------------------------------------------------------
\* C19: download_tle_data raises for a category it has no URL for, before
\* any request is made; it raises when the request fails or the response
\* has an error status; in both cases no cache file is written and no
\* path is returned.  A path is returned only when the retrieved text
\* has been written to the file of that path.
Downloaded == op = "download_tle_data"

RequestFailed ==
    \/ ~obs.response.connected
    \/ obs.response.connected /\ obs.response.status_code >= 400

C19_DownloadFailsCleanly ==
    Downloaded =>
        /\ obs.category \notin DOMAIN base_urls =>
               /\ ret.raised /\ ret.exception[1] = "ValueError"
               /\ obs.requested = <<>>
        /\ (obs.category \in DOMAIN base_urls /\ RequestFailed) => ret.raised
        /\ ret.raised => ("value" \notin DOMAIN ret /\ cache = obs.before)
        /\ ~ret.raised =>
               /\ ret.value \in DOMAIN cache
               /\ cache[ret.value] = obs.response.text
               /\ obs.category \in DOMAIN base_urls /\ ~RequestFailed

\* a request for a known category was answered with an error status
\* after an earlier download had written a file
C19_Witness ==
    /\ Downloaded
    /\ obs.category \in DOMAIN base_urls
    /\ obs.response.connected
    /\ obs.response.status_code >= 400
    /\ ret.raised
    /\ DOMAIN cache # {}

----------------------------------------------------------------------------
\* C20: generate_orbit_path for a known name and points >= 1 returns three
\* arrays of length points, one sample per index in chronological order:
\* sample 0 is the position at the start time the call read, sample i the
\* position at start + i * duration / (points - 1) cut to whole seconds,
\* the sample times never decrease, and for points >= 2 the last sample
\* is the position at start + duration.
PathReturned == op = "generate_orbit_path" /\ ~ret.raised

\* the whole second of start + i * duration / (points - 1)
NominalSecond(i) ==
    IF obs.points = 1
    THEN obs.start_time \div Second
    ELSE (obs.start_time * (obs.points - 1) + i * obs.duration * Second)
             \div ((obs.points - 1) * Second)

C20_PathSamples ==
    PathReturned =>
        LET satellite == satellites[obs.satellite_name]
            last == obs.points - 1
        IN  /\ obs.points >= 1
            /\ DOMAIN ret.value.x = 0..last
            /\ DOMAIN ret.value.y = 0..last
            /\ DOMAIN ret.value.z = 0..last
            /\ \A i \in 0..last :
                   /\ obs.ts[i] = NominalSecond(i)
                   /\ <<ret.value.x[i], ret.value.y[i], ret.value.z[i]>>
                          = at(satellite, NominalSecond(i))
            /\ obs.ts[0] = utc(obs.start_time)
            /\ \A i \in 0..(last - 1) : obs.ts[i] <= obs.ts[i + 1]
            /\ obs.points >= 2 =>
                   obs.ts[last] = utc(obs.start_time + obs.duration * Second)

\* a path of at least three samples whose start time is not a whole
\* second and whose samples do not all fall on different seconds
C20_Witness ==
    /\ PathReturned
    /\ obs.points >= 3
    /\ obs.start_time % Second # 0
    /\ \E i \in 0..(obs.points - 2) : obs.ts[i] = obs.ts[i + 1]

----------------------------------------------------------------------------
\* C21: in every error-free analyze_close_approach result warning_periods
\* is at least 1 exactly when min_distance_km is below warning_distance_km;
\* hence under a warning distance of 5 km or more a risk of HIGH or MEDIUM
\* comes with warning_periods >= 1; and warning_periods is never more than
\* the number of samples.
MinBelowWarning ==
    ret.min_distance_km < warning_distance_km * warning_distance_km * Scale * Scale

C21_WarningIffMinBelow ==
    Analyzed =>
        /\ ret.warning_periods >= 1 <=> MinBelowWarning
        /\ (warning_distance_km >= 5 /\ ret.collision_risk \in {"HIGH", "MEDIUM"}) =>
               ret.warning_periods >= 1
        /\ ret.warning_periods <= obs.args.points

\* a MEDIUM risk under a warning distance of 5 km, with some but not all
\* samples below the warning distance
C21_Witness ==
    /\ Analyzed
    /\ warning_distance_km = 5
    /\ ret.collision_risk = "MEDIUM"
    /\ ret.warning_periods >= 1
    /\ ret.warning_periods < obs.args.points

----------------------------------------------------------------------------
\* C22: a generate_orbit_path or calculate_ground_track call computes all
\* of its samples from the record the catalog held under the name when
\* the call looked it up, also when load_tle_file stores another record
\* under that name while the call is running; and a name that passed the
\* membership test is present at the lookup, so the lookup never fails.
C22_OneRecordPerCall ==
    /\ (running # None /\ running.pc = "lookup") =>
           running.satellite_name \in DOMAIN satellites
    /\ (op \in PathKinds /\ ret.raised) => ret.exception[1] # "KeyError"
    /\ (op = "generate_orbit_path" /\ ~ret.raised) =>
           \A i \in 0..(obs.points - 1) :
               <<ret.value.x[i], ret.value.y[i], ret.value.z[i]>>
                   = at(obs.satellite, obs.ts[i])
    /\ (op = "calculate_ground_track" /\ ~ret.raised) =>
           \A i \in 0..(obs.points - 1) :
               /\ ret.value.latitudes[i] = at(obs.satellite, obs.ts[i])[3]
               /\ ret.value.longitudes[i] = at(obs.satellite, obs.ts[i])[1]

\* a path of several samples was returned after load_tle_file had put
\* another record under the name while the samples were being computed
C22_Witness ==
    /\ op = "generate_orbit_path"
    /\ ~ret.raised
    /\ obs.points >= 2
    /\ obs.overwritten
    /\ satellites[obs.satellite_name] # obs.satellite

====
